---- MODULE Spec2Model ----
(***************************************************************************)
(* explain-my-transaction: the payment-gated explain / verify-payment      *)
(* routes, modelled over an abstract chain and an ordered pool of RPC       *)
(* providers.                                                               *)
(*                                                                          *)
(* Strings are sequences of one-character strings.  A block number of 0    *)
(* stands for "no block number" (JavaScript tests it with !x, which 0 and   *)
(* null both satisfy).                                                      *)
(***************************************************************************)
EXTENDS Integers, Sequences, FiniteSets, TLC

VARIABLES chain, pool, resp, flights, page

vars == <<chain, pool, resp, flights, page>>

(***************************************************************************)
(* Bounds of the model.                                                     *)
(***************************************************************************)
\* number of candidates of RPC_URLS the model keeps (the source lists four)
NumProviders == 2

\* longest list of receipt logs the log classifier is given
MaxLogs == 2

\* number of requests the server handles at once
MaxInFlight == 2

\* number of explain fetches the page issues
MaxIssued == 3

(***************************************************************************)
(* Configuration constants of the routes.                                   *)
(***************************************************************************)
PRICE_USDC_UNITS == 3000000

BASE_CHAIN_ID == 8453

MIN_CONFIRMATIONS == 1

\* the 64 hex digits of the regular expression of isTxHash
HashDigits == 64

\* addresses are <<identity, letter case>>
PAYMENT_ADDRESS == <<"payment", "checksum">>

USDC_BASE == <<"usdc", "checksum">>

RPC_URLS == [i \in 1..NumProviders |-> i]

(***************************************************************************)
(* Strings.                                                                 *)
(***************************************************************************)
\* null of a record-valued result (transaction, receipt, error)
Null == [null |-> TRUE]

\* null of a string-valued field (a query parameter that is not there)
Absent == <<"NULL">>

Rep(c, n) == [i \in 1..n |-> c]

HexChars == {"0", "1", "2", "3", "4", "5", "6", "7", "8", "9",
             "a", "b", "c", "d", "e", "f", "A", "B", "C", "D", "E", "F"}

Whitespace == {" ", "\t", "\n"}

\* String.prototype.trim
RECURSIVE trimStart(_)
trimStart(s) ==
  IF Len(s) > 0 /\ s[1] \in Whitespace THEN trimStart(Tail(s)) ELSE s

RECURSIVE trimEnd(_)
trimEnd(s) ==
  IF Len(s) > 0 /\ s[Len(s)] \in Whitespace
  THEN trimEnd(SubSeq(s, 1, Len(s) - 1))
  ELSE s

trim(s) == trimEnd(trimStart(s))

\* (x || "") of a query parameter or body field
OrEmpty(v) == IF v = Absent THEN <<>> ELSE v

\* faulty variant: the anchors of the pattern are dropped (prefix match only)
isTxHash_unanchored(x) ==
  /\ Len(x) >= HashDigits + 2
  /\ x[1] = "0"
  /\ x[2] = "x"
  /\ \A i \in 3..(HashDigits + 2) : x[i] \in HexChars

\* /^0x[a-fA-F0-9]{64}$/.test(x)
isTxHash(x) ==
  /\ Len(x) = HashDigits + 2
  /\ x[1] = "0"
  /\ x[2] = "x"
  /\ \A i \in 3..(HashDigits + 2) : x[i] \in HexChars

toLowerCase(addr) == <<addr[1], "lower">>

\* (Number(v) / 1_000_000).toFixed(6): the whole part and the six decimals
toUSDC(v) == [whole |-> v \div 1000000, micro |-> v % 1000000]

NoPaid == [whole |-> -1, micro |-> 0]

(***************************************************************************)
(* Transaction hashes the requests and the chain speak about.               *)
(***************************************************************************)
HashOf(c) == <<"0", "x">> \o Rep(c, HashDigits)

\* the payment transaction
PAY_HASH == HashOf("b")

\* the target transaction of explain
TGT_HASH == HashOf("a")

\* a well-formed hash no node knows
LOST_HASH == HashOf("C")

(***************************************************************************)
(* Event logs.  sig is the event the first topic names; wellFormed says     *)
(* whether the topics and the data decode against that event.               *)
(***************************************************************************)
Log(addr, sig, wf, to, v) ==
  [address |-> addr, sig |-> sig, wellFormed |-> wf,
   from |-> <<"payer", "checksum">>, to |-> to, value |-> v]

Xfer(v) == Log(<<"usdc", "lower">>, "Transfer", TRUE, <<"payment", "checksum">>, v)

\* Transfers that must not count: another token, another recipient, malformed
DecoyToken == Log(<<"dai", "lower">>, "Transfer", TRUE, <<"payment", "checksum">>, PRICE_USDC_UNITS)

DecoyRecipient == Log(<<"usdc", "checksum">>, "Transfer", TRUE, <<"payer", "checksum">>, PRICE_USDC_UNITS)

DecoyMalformed == Log(<<"usdc", "lower">>, "Transfer", FALSE, <<"payment", "checksum">>, PRICE_USDC_UNITS)

ApprovalLog == Log(<<"dai", "checksum">>, "Approval", TRUE, <<"spender", "checksum">>, 1)

UnknownLog == Log(<<"pool", "lower">>, "Swap", TRUE, <<"payer", "checksum">>, 0)

\* the logs a mined, successful payment transaction may have emitted
PayLogChoices ==
  { <<Xfer(PRICE_USDC_UNITS)>>,
    <<Xfer(PRICE_USDC_UNITS - 1), DecoyToken, DecoyRecipient>>,
    <<DecoyMalformed, Xfer(PRICE_USDC_UNITS - 1), Xfer(1)>> }

\* qualifying transfers other transactions of the payment's block emitted
ExtraLogChoices == { <<>>, <<Xfer(PRICE_USDC_UNITS)>> }

\* the target transaction's body: value, payload, logs
ContractCall == [value |-> 0, data |-> "0xa9059cbb", logs |-> <<ApprovalLog, Xfer(5)>>]

PlainTransfer == [value |-> 1, data |-> "0x", logs |-> <<>>]

\* a call that also sends value, and a call with neither value nor payload
PayableCall == [value |-> 1, data |-> "0xd0e30db0", logs |-> <<UnknownLog>>]

EmptyCall == [value |-> 0, data |-> "0x", logs |-> <<>>]

TargetBodies == {ContractCall, PlainTransfer, PayableCall, EmptyCall}

(***************************************************************************)
(* The chain: what a fully synced node of the accepted network would        *)
(* answer.  The target transaction sits in block 1, the payment             *)
(* transaction, once mined, in block 2.                                     *)
(***************************************************************************)
Height(c) == IF c.pay = "mined" THEN 2 ELSE 1

TxOf(c, hash) ==
  IF hash = PAY_HASH /\ c.pay # "absent"
  THEN [from |-> <<"payer", "lower">>, to |-> <<"usdc", "lower">>,
        value |-> 0, data |-> "0xa9059cbb",
        blockNumber |-> IF c.pay = "mined" THEN 2 ELSE 0]
  ELSE IF hash = TGT_HASH /\ c.tgt # "absent"
  THEN [from |-> <<"payer", "lower">>, to |-> <<"dai", "lower">>,
        value |-> c.tgtBody.value, data |-> c.tgtBody.data,
        blockNumber |-> IF c.tgt = "mined" THEN 1 ELSE 0]
  ELSE Null

ReceiptOf(c, hash) ==
  IF hash = PAY_HASH /\ c.pay = "mined"
  THEN [status |-> c.payStatus, blockNumber |-> 2, logs |-> c.payLogs,
        gasUsed |-> 50000, effectiveGasPrice |-> 10]
  ELSE IF hash = TGT_HASH /\ c.tgt = "mined"
  THEN [status |-> 1, blockNumber |-> 1, logs |-> c.tgtBody.logs,
        gasUsed |-> 21000, effectiveGasPrice |-> 10]
  ELSE Null

\* every log of a block, in order
BlockLogs(c, b) ==
  IF b = 2 /\ c.pay = "mined" THEN c.payLogs \o c.extra
  ELSE IF b = 1 /\ c.tgt = "mined" THEN c.tgtBody.logs
  ELSE <<>>

MatchesFilter(log, f) ==
  /\ toLowerCase(log.address) = toLowerCase(f.address)
  /\ log.sig = f.topics[1]
  /\ toLowerCase(log.to) = toLowerCase(f.topics[3])

\* eth_getLogs over [fromBlock, toBlock] (the model has blocks 1 and 2)
LogsOf(c, f) ==
  LET one(b) == IF f.fromBlock <= b /\ b <= f.toBlock
                THEN SelectSeq(BlockLogs(c, b), LAMBDA l : MatchesFilter(l, f))
                ELSE <<>>
  IN one(1) \o one(2)

(***************************************************************************)
(* RPC providers.  A provider is in one of these modes:                     *)
(*   down      the liveness probe throws                                    *)
(*   opErr     the probe answers, one block behind; any other read throws   *)
(*             (getBlockNumber as a read answers as the probe did)          *)
(*   stale     one block behind and without the transactions asked about    *)
(*   noReceipt synced, but receipts are not indexed yet (null)              *)
(*   synced    answers as the chain is                                      *)
(*   foreign   a node of another network                                    *)
(***************************************************************************)
Modes == {"down", "opErr", "stale", "noReceipt", "synced", "foreign"}

Threw(i, phase) == [threw |-> TRUE, err |-> [at |-> i, phase |-> phase]]

Gave(v) == [threw |-> FALSE, value |-> v]

\* the liveness probe in withAnyProvider: provider.getBlockNumber()
Probe(mode, c, i) ==
  CASE mode = "down" -> Threw(i, "probe")
    [] mode \in {"stale", "opErr"} -> Gave(1)
    [] mode = "foreign" -> Gave(9)
    [] OTHER -> Gave(Height(c))

\* the read fn(provider) of withAnyProvider: call is [method, arg]
Read(mode, c, i, call) ==
  CASE mode = "down" -> Threw(i, "op")
    [] call.method = "getBlockNumber" -> Probe(mode, c, i)
    [] mode = "opErr" -> Threw(i, "op")
    [] call.method = "getNetwork" ->
         Gave([chainId |-> IF mode = "foreign" THEN 1 ELSE BASE_CHAIN_ID])
    [] call.method = "getTransactionReceipt" ->
         IF mode = "synced" THEN Gave(ReceiptOf(c, call.arg))
         ELSE Gave(Null)
    [] call.method = "getTransaction" ->
         IF mode \in {"synced", "noReceipt"} THEN Gave(TxOf(c, call.arg))
         ELSE Gave(Null)
    [] call.method = "getLogs" ->
         IF mode \in {"synced", "noReceipt"} THEN Gave(LogsOf(c, call.arg))
         ELSE Gave(<<>>)

Call(m, a) == [method |-> m, arg |-> a]

Asked(i, m) == [provider |-> i, method |-> m]

(***************************************************************************)
(* withAnyProvider: the result is                                           *)
(*   [ok |-> TRUE,  value, by,  calls]  the first candidate that answered   *)
(*   [ok |-> FALSE, err,        calls]  thrown: lastErr ?? new Error(...)   *)
(* calls is the sequence of provider requests issued, in order.             *)
(***************************************************************************)
AllFailed == [at |-> 0, phase |-> "All RPC providers failed"]

\* faulty variant: the loop stops one candidate short of the end of RPC_URLS
RECURSIVE tryProviders_skipLast(_, _, _, _, _, _)
tryProviders_skipLast(p, c, call, i, lastErr, calls) ==
  IF i >= Len(RPC_URLS)
  THEN [ok |-> FALSE, err |-> IF lastErr = Null THEN AllFailed ELSE lastErr,
        calls |-> calls]
  ELSE LET probe  == Probe(p[RPC_URLS[i]], c, i)
           probed == Append(calls, Asked(i, "getBlockNumber"))
       IN IF probe.threw
          THEN tryProviders_skipLast(p, c, call, i + 1, probe.err, probed)
          ELSE LET r   == Read(p[RPC_URLS[i]], c, i, call)
                   did == Append(probed, Asked(i, call.method))
               IN IF r.threw
                  THEN tryProviders_skipLast(p, c, call, i + 1, r.err, did)
                  ELSE [ok |-> TRUE, value |-> r.value, by |-> i, calls |-> did]

\* faulty variant: a null receipt or transaction is passed over while
\* another candidate is left to ask
RECURSIVE tryProviders_skipEmpty(_, _, _, _, _, _)
tryProviders_skipEmpty(p, c, call, i, lastErr, calls) ==
  IF i > Len(RPC_URLS)
  THEN [ok |-> FALSE, err |-> IF lastErr = Null THEN AllFailed ELSE lastErr,
        calls |-> calls]
  ELSE LET probe  == Probe(p[RPC_URLS[i]], c, i)
           probed == Append(calls, Asked(i, "getBlockNumber"))
       IN IF probe.threw
          THEN tryProviders_skipEmpty(p, c, call, i + 1, probe.err, probed)
          ELSE LET r   == Read(p[RPC_URLS[i]], c, i, call)
                   did == Append(probed, Asked(i, call.method))
               IN IF r.threw
                  THEN tryProviders_skipEmpty(p, c, call, i + 1, r.err, did)
                  ELSE IF /\ call.method \in {"getTransactionReceipt", "getTransaction"}
                          /\ r.value = Null
                          /\ i < Len(RPC_URLS)
                  THEN tryProviders_skipEmpty(p, c, call, i + 1, lastErr, did)
                  ELSE [ok |-> TRUE, value |-> r.value, by |-> i, calls |-> did]

\* faulty variant: a failed read is issued once more to the same candidate
RECURSIVE tryProviders_retryOp(_, _, _, _, _, _)
tryProviders_retryOp(p, c, call, i, lastErr, calls) ==
  IF i > Len(RPC_URLS)
  THEN [ok |-> FALSE, err |-> IF lastErr = Null THEN AllFailed ELSE lastErr,
        calls |-> calls]
  ELSE LET probe  == Probe(p[RPC_URLS[i]], c, i)
           probed == Append(calls, Asked(i, "getBlockNumber"))
       IN IF probe.threw
          THEN tryProviders_retryOp(p, c, call, i + 1, probe.err, probed)
          ELSE LET r   == Read(p[RPC_URLS[i]], c, i, call)
                   did == Append(probed, Asked(i, call.method))
               IN IF r.threw
                  THEN tryProviders_retryOp(p, c, call, i + 1, r.err,
                                            Append(did, Asked(i, call.method)))
                  ELSE [ok |-> TRUE, value |-> r.value, by |-> i, calls |-> did]

\* faulty variant: lastErr keeps the first error (lastErr ??= e)
RECURSIVE tryProviders_firstErr(_, _, _, _, _, _)
tryProviders_firstErr(p, c, call, i, lastErr, calls) ==
  IF i > Len(RPC_URLS)
  THEN [ok |-> FALSE, err |-> IF lastErr = Null THEN AllFailed ELSE lastErr,
        calls |-> calls]
  ELSE LET probe  == Probe(p[RPC_URLS[i]], c, i)
           probed == Append(calls, Asked(i, "getBlockNumber"))
           keep(e) == IF lastErr = Null THEN e ELSE lastErr
       IN IF probe.threw
          THEN tryProviders_firstErr(p, c, call, i + 1, keep(probe.err), probed)
          ELSE LET r   == Read(p[RPC_URLS[i]], c, i, call)
                   did == Append(probed, Asked(i, call.method))
               IN IF r.threw
                  THEN tryProviders_firstErr(p, c, call, i + 1, keep(r.err), did)
                  ELSE [ok |-> TRUE, value |-> r.value, by |-> i, calls |-> did]

\* the for loop of withAnyProvider, from candidate i on
RECURSIVE tryProviders(_, _, _, _, _, _)
tryProviders(p, c, call, i, lastErr, calls) ==
  IF i > Len(RPC_URLS)
  THEN [ok |-> FALSE, err |-> IF lastErr = Null THEN AllFailed ELSE lastErr,
        calls |-> calls]
  ELSE LET probe  == Probe(p[RPC_URLS[i]], c, i)
           probed == Append(calls, Asked(i, "getBlockNumber"))
       IN IF probe.threw
          THEN tryProviders(p, c, call, i + 1, probe.err, probed)
          ELSE LET r   == Read(p[RPC_URLS[i]], c, i, call)
                   did == Append(probed, Asked(i, call.method))
               IN IF r.threw
                  THEN tryProviders(p, c, call, i + 1, r.err, did)
                  ELSE [ok |-> TRUE, value |-> r.value, by |-> i, calls |-> did]

withAnyProvider(p, c, call) == tryProviders(p, c, call, 1, Null, <<>>)

(***************************************************************************)
(* Log decoding: iface.parseLog against the events the interface lists.     *)
(* The outcome is "null" (no event of the interface has this signature),    *)
(* "throw" (the topics or the data do not decode) or the parsed event.      *)
(***************************************************************************)
parseLog(events, log) ==
  IF log.sig \notin events THEN [outcome |-> "null"]
  ELSE IF ~log.wellFormed THEN [outcome |-> "throw"]
  ELSE [outcome |-> "parsed", name |-> log.sig,
        to |-> <<log.to[1], "checksum">>, value |-> log.value]

\* faulty variant: the recipient test is dropped
getPaidAmountFromLogs_anyRecipient(logs) ==
  LET RECURSIVE total(_)
      total(k) ==
        IF k = 0 THEN 0
        ELSE LET log == logs[k]
             IN IF log.address[1] = "" THEN total(k - 1)
                ELSE IF toLowerCase(log.address) # toLowerCase(USDC_BASE) THEN total(k - 1)
                ELSE IF parseLog({"Transfer"}, log).outcome = "parsed"
                     THEN total(k - 1) + log.value
                     ELSE total(k - 1)
  IN total(Len(logs))

\* getPaidAmountFromLogs: the sum of the Transfers of USDC_BASE to PAYMENT_ADDRESS
getPaidAmountFromLogs(logs) ==
  LET RECURSIVE total(_)
      total(k) ==
        IF k = 0 THEN 0
        ELSE LET log    == logs[k]
                 parsed == parseLog({"Transfer"}, log)
             IN IF log.address[1] = "" THEN total(k - 1)
                ELSE IF toLowerCase(log.address) # toLowerCase(USDC_BASE) THEN total(k - 1)
                ELSE IF parsed.outcome # "parsed" THEN total(k - 1)
                ELSE IF toLowerCase(parsed.to) = toLowerCase(PAYMENT_ADDRESS)
                     THEN total(k - 1) + parsed.value
                     ELSE total(k - 1)
  IN total(Len(logs))

(***************************************************************************)
(* Payment verification.  A result is the JSON body the route answers with  *)
(* (threw = FALSE), or the error verify() let escape (threw = TRUE); calls  *)
(* is the sequence of provider requests the call issued.                    *)
(***************************************************************************)
Res(ok, status, paid, message, calls) ==
  [threw |-> FALSE, ok |-> ok, status |-> status, paidUSDC |-> paid,
   message |-> message, calls |-> calls]

Thrown(err, calls) ==
  [threw |-> TRUE, ok |-> FALSE, status |-> "THROWN", paidUSDC |-> NoPaid,
   message |-> "", err |-> err, calls |-> calls]

\* faulty variant: the range starts at the first block instead of the
\* transaction's block
TransferFilter_fromFirstBlock(block) ==
  [fromBlock |-> 1, toBlock |-> block, address |-> USDC_BASE,
   topics |-> <<"Transfer", Absent, PAYMENT_ADDRESS>>]

\* the filter of the fallback's getLogs
TransferFilter(block) ==
  [fromBlock |-> block, toBlock |-> block, address |-> USDC_BASE,
   topics |-> <<"Transfer", Absent, PAYMENT_ADDRESS>>]

\* faulty variant: a missing record and a record without block number are
\* told apart the wrong way round
verifyWithoutReceipt_swapped(p, c, txHash, calls) ==
  LET t == withAnyProvider(p, c, Call("getTransaction", txHash))
      calls3 == calls \o t.calls
  IN IF ~t.ok THEN Thrown(t.err, calls3)
     ELSE IF t.value = Null
     THEN Res(TRUE, "PENDING", NoPaid, "Transaction is still pending.", calls3)
     ELSE IF t.value.blockNumber = 0
     THEN Res(TRUE, "NOT_FOUND", NoPaid, "Transaction not found yet.", calls3)
     ELSE LET lg == withAnyProvider(p, c,
                      Call("getLogs", TransferFilter(t.value.blockNumber)))
              calls4 == calls3 \o lg.calls
          IN IF ~lg.ok THEN Thrown(lg.err, calls4)
             ELSE IF getPaidAmountFromLogs(lg.value) >= PRICE_USDC_UNITS
                  THEN Res(TRUE, "CONFIRMED", toUSDC(getPaidAmountFromLogs(lg.value)),
                           "Payment confirmed (logs fallback).", calls4)
                  ELSE Res(TRUE, "PENDING", toUSDC(getPaidAmountFromLogs(lg.value)),
                           "Transaction found, waiting for payment.", calls4)

\* steps 3 and 4 of verify: no receipt, look for the transaction, then for
\* the logs of its block
verifyWithoutReceipt(p, c, txHash, calls) ==
  LET t == withAnyProvider(p, c, Call("getTransaction", txHash))
      calls3 == calls \o t.calls
  IN IF ~t.ok THEN Thrown(t.err, calls3)
     ELSE IF t.value = Null
     THEN Res(TRUE, "NOT_FOUND", NoPaid, "Transaction not found yet.", calls3)
     ELSE IF t.value.blockNumber = 0
     THEN Res(TRUE, "PENDING", NoPaid, "Transaction is still pending.", calls3)
     ELSE LET lg == withAnyProvider(p, c,
                      Call("getLogs", TransferFilter(t.value.blockNumber)))
              calls4 == calls3 \o lg.calls
          IN IF ~lg.ok THEN Thrown(lg.err, calls4)
             ELSE LET paid == getPaidAmountFromLogs(lg.value)
                  IN IF paid >= PRICE_USDC_UNITS
                     THEN Res(TRUE, "CONFIRMED", toUSDC(paid),
                              "Payment confirmed (logs fallback).", calls4)
                     ELSE Res(TRUE, "PENDING", toUSDC(paid),
                              "Transaction found, waiting for payment.", calls4)

\* faulty variant: the comparison with the price is strict
payStatusOf_strict(paid, calls) ==
  IF paid > PRICE_USDC_UNITS
  THEN Res(TRUE, "CONFIRMED", toUSDC(paid), "Payment confirmed.", calls)
  ELSE Res(TRUE, "PENDING", toUSDC(paid),
           "Transaction found, but payment not detected yet.", calls)

\* the threshold comparison on the receipt path of verify
payStatusOf(paid, calls) ==
  IF paid >= PRICE_USDC_UNITS
  THEN Res(TRUE, "CONFIRMED", toUSDC(paid), "Payment confirmed.", calls)
  ELSE Res(TRUE, "PENDING", toUSDC(paid),
           "Transaction found, but payment not detected yet.", calls)

\* faulty variant: the network is never checked
isWrongNetwork_never(network) == FALSE

\* Number(network.chainId) !== BASE_CHAIN_ID
isWrongNetwork(network) == network.chainId # BASE_CHAIN_ID

\* verify of src/app/api/verify-payment/route.ts
verify(p, c, txHash) ==
  LET net == withAnyProvider(p, c, Call("getNetwork", <<>>))
  IN IF ~net.ok THEN Thrown(net.err, net.calls)
     ELSE IF isWrongNetwork(net.value)
     THEN Res(FALSE, "FAILED", NoPaid,
              "Wrong network. Payment must be on Base.", net.calls)
     ELSE LET rc      == withAnyProvider(p, c, Call("getTransactionReceipt", txHash))
              receipt == IF rc.ok THEN rc.value ELSE Null
              calls2  == net.calls \o rc.calls
          IN IF receipt # Null
             THEN IF receipt.status # 1
                  THEN Res(FALSE, "FAILED", NoPaid, "Transaction failed.", calls2)
                  ELSE payStatusOf(getPaidAmountFromLogs(receipt.logs), calls2)
             ELSE verifyWithoutReceipt(p, c, txHash, calls2)

\* verify of src/unnamed/part_000: as above, with the confirmation depth
verify_p0(p, c, txHash) ==
  LET net == withAnyProvider(p, c, Call("getNetwork", <<>>))
  IN IF ~net.ok THEN Thrown(net.err, net.calls)
     ELSE IF isWrongNetwork(net.value)
     THEN Res(FALSE, "FAILED", NoPaid,
              "Wrong network. Payment must be on Base.", net.calls)
     ELSE LET rc      == withAnyProvider(p, c, Call("getTransactionReceipt", txHash))
              receipt == IF rc.ok THEN rc.value ELSE Null
              calls2  == net.calls \o rc.calls
          IN IF receipt # Null
             THEN IF receipt.status # 1
                  THEN Res(FALSE, "FAILED", NoPaid, "Transaction failed.", calls2)
                  ELSE LET lb     == withAnyProvider(p, c, Call("getBlockNumber", <<>>))
                           calls3 == calls2 \o lb.calls
                       IN IF ~lb.ok THEN Thrown(lb.err, calls3)
                          ELSE IF lb.value - receipt.blockNumber + 1 < MIN_CONFIRMATIONS
                          THEN Res(TRUE, "PENDING", NoPaid,
                                   "Waiting for confirmations.", calls3)
                          ELSE payStatusOf(getPaidAmountFromLogs(receipt.logs), calls3)
             ELSE verifyWithoutReceipt(p, c, txHash, calls2)

InvalidHash ==
  [threw |-> FALSE, ok |-> FALSE, status |-> "FAILED", paidUSDC |-> NoPaid,
   message |-> "Invalid tx hash.", calls |-> <<>>]

\* GET ?payTx=... of src/app/api/verify-payment/route.ts
GET_verify(p, c, query) ==
  LET txHash == trim(OrEmpty(query.payTx))
  IN IF ~isTxHash(txHash) THEN InvalidHash ELSE verify(p, c, txHash)

\* POST { txHash } of src/app/api/verify-payment/route.ts
POST_verify(p, c, body) ==
  LET txHash == trim(OrEmpty(body.txHash))
  IN IF ~isTxHash(txHash) THEN InvalidHash ELSE verify(p, c, txHash)

\* GET ?payTx=... of the verify-payment route in src/unnamed/part_000
GET_verify_p0(p, c, query) ==
  LET txHash == trim(OrEmpty(query.payTx))
  IN IF ~isTxHash(txHash) THEN InvalidHash ELSE verify_p0(p, c, txHash)

\* POST { txHash } of the verify-payment route in src/unnamed/part_000
POST_verify_p0(p, c, body) ==
  LET txHash == trim(OrEmpty(body.txHash))
  IN IF ~isTxHash(txHash) THEN InvalidHash ELSE verify_p0(p, c, txHash)

(***************************************************************************)
(* explain.                                                                 *)
(***************************************************************************)
\* isPaymentConfirmed of src/unnamed/part_000: [value, calls]
isPaymentConfirmed(p, c, payTx) ==
  IF ~isTxHash(payTx) THEN [value |-> FALSE, calls |-> <<>>]
  ELSE LET rc      == withAnyProvider(p, c, Call("getTransactionReceipt", payTx))
           receipt == IF rc.ok THEN rc.value ELSE Null
       IN IF receipt = Null THEN [value |-> FALSE, calls |-> rc.calls]
          ELSE IF receipt.status # 1 THEN [value |-> FALSE, calls |-> rc.calls]
          ELSE [value |-> getPaidAmountFromLogs(receipt.logs) >= PRICE_USDC_UNITS,
                calls |-> rc.calls]

\* ethers.getAddress: the checksummed form
getAddress(addr) == <<addr[1], "checksum">>

\* short(addr)
short(addr) == IF addr[1] = "" THEN <<"-">> ELSE <<"short", addr[1], addr[2]>>

\* faulty variant: the emitting address is recorded after the log decoded
classifyLogs_decodedOnly(logs) ==
  LET decoded(log) == LET d == parseLog({"Transfer", "Approval"}, log)
                      IN IF d.outcome = "parsed" THEN d.name ELSE "none"
      idx == 1..Len(logs)
  IN [touchedContracts |-> { toLowerCase(logs[k].address) :
                               k \in { j \in idx : decoded(logs[j]) # "none" } },
      tokenTransfers |-> Cardinality({ k \in idx : decoded(logs[k]) = "Transfer" }),
      approvals |-> Cardinality({ k \in idx : decoded(logs[k]) = "Approval" })]

\* the loop over receipt.logs of explain: touched contracts, Transfers, Approvals
classifyLogs(logs) ==
  LET events == {"Transfer", "Approval"}
      decoded(log) == LET d == parseLog(events, log)
                      IN IF d.outcome = "parsed" THEN d.name ELSE "none"
      idx == 1..Len(logs)
  IN [touchedContracts |-> { toLowerCase(logs[k].address) :
                               k \in { j \in idx : logs[j].address[1] # "" } },
      tokenTransfers |-> Cardinality({ k \in idx : decoded(logs[k]) = "Transfer" }),
      approvals |-> Cardinality({ k \in idx : decoded(logs[k]) = "Approval" })]

riskOf(m) ==
  IF m.approvals > 0 THEN "Medium"
  ELSE IF Cardinality(m.touchedContracts) > 1 THEN "Low-Medium"
  ELSE "Low"

basescanUrl(tx) == [site |-> "https://basescan.org", tx |-> tx]

NoFee == [kind |-> "none", wei |-> 0]

Text(t) == [kind |-> "text", text |-> t]

Explained(summary, fee, explanation, tx, unlocked, calls) ==
  [threw |-> FALSE, summary |-> summary, fee |-> fee, explanation |-> explanation,
   basescan |-> basescanUrl(tx), accessUnlocked |-> unlocked, calls |-> calls]

\* the classification both explain routes return for a fetched transaction
explanationLines(transaction, m) ==
  [kind |-> "lines",
   from |-> short(getAddress(transaction.from)),
   to |-> short(getAddress(transaction.to)),
   touched |-> Cardinality(m.touchedContracts),
   tokenTransfers |-> m.tokenTransfers,
   approvals |-> m.approvals,
   risk |-> riskOf(m)]

\* faulty variant: the payload is not looked at
summaryOf_valueOnly(transaction) ==
  IF transaction.value > 0 THEN "ETH transfer" ELSE "Contract interaction"

\* isEthTransfer and the summary it selects
summaryOf(transaction) ==
  IF transaction.value > 0 /\ transaction.data = "0x"
  THEN "ETH transfer" ELSE "Contract interaction"

NoLogs == [touchedContracts |-> {}, tokenTransfers |-> 0, approvals |-> 0]

\* GET of the explain route in src/unnamed/part_000 (tx, optional payTx)
GET_explain_p0(p, c, query) ==
  LET tx    == trim(OrEmpty(query.tx))
      payTx == trim(OrEmpty(query.payTx))
  IN IF tx = <<>> \/ ~isTxHash(tx)
     THEN Explained("Paste a transaction hash", NoFee,
                    Text("Enter a valid Base transaction hash (0x...) and press Explain."),
                    tx, FALSE, <<>>)
     ELSE LET pay == IF payTx # <<>> THEN isPaymentConfirmed(p, c, payTx)
                     ELSE [value |-> FALSE, calls |-> <<>>]
              accessUnlocked == pay.value
              t == withAnyProvider(p, c, Call("getTransaction", tx))
              r == withAnyProvider(p, c, Call("getTransactionReceipt", tx))
              calls1 == pay.calls \o t.calls
              calls2 == calls1 \o r.calls
          IN IF ~t.ok
             THEN Explained("We can't load details right now", NoFee,
                            Text("We couldn't load enough information at the moment."),
                            tx, accessUnlocked, calls1)
             ELSE IF ~r.ok
             THEN Explained("We can't load details right now", NoFee,
                            Text("We couldn't load enough information at the moment."),
                            tx, accessUnlocked, calls2)
             ELSE IF t.value = Null
             THEN Explained("We can't load details right now", NoFee,
                            Text("This transaction may be real, but we couldn't load its details."),
                            tx, accessUnlocked, calls2)
             ELSE LET receipt == r.value
                      fee == IF receipt # Null
                             THEN [kind |-> "eth",
                                   wei |-> receipt.gasUsed * receipt.effectiveGasPrice]
                             ELSE NoFee
                      m == IF receipt # Null THEN classifyLogs(receipt.logs) ELSE NoLogs
                  IN Explained(summaryOf(t.value), fee, explanationLines(t.value, m),
                               tx, accessUnlocked, calls2)

\* GET of src/app/api/explain/route.ts (tx only)
GET_explain(p, c, query) ==
  LET tx == trim(OrEmpty(query.tx))
  IN IF tx = <<>> \/ ~isTxHash(tx)
     THEN Explained("Paste a transaction hash", NoFee,
                    Text("Enter a valid Base transaction hash to see what really happened."),
                    tx, FALSE, <<>>)
     ELSE LET t == withAnyProvider(p, c, Call("getTransaction", tx))
              r == withAnyProvider(p, c, Call("getTransactionReceipt", tx))
              calls2 == t.calls \o r.calls
          IN IF ~t.ok
             THEN Explained("Unable to analyze transaction", NoFee,
                            Text("We couldn't analyze this transaction right now."),
                            tx, FALSE, t.calls)
             ELSE IF ~r.ok
             THEN Explained("Unable to analyze transaction", NoFee,
                            Text("We couldn't analyze this transaction right now."),
                            tx, FALSE, calls2)
             ELSE IF t.value = Null \/ r.value = Null
             THEN Explained("Transaction found", NoFee,
                            Text("We found this transaction, but details are still loading."),
                            tx, FALSE, calls2)
             ELSE Explained(summaryOf(t.value), NoFee,
                            explanationLines(t.value, classifyLogs(r.value.logs)),
                            tx, TRUE, calls2)

(***************************************************************************)
(* The handlers one await at a time.  A flight is a request being handled:  *)
(* pc names the withAnyProvider call the handler awaits, the other fields   *)
(* are the handler's local variables that live across an await.  One step   *)
(* runs the handler from the await it is suspended at to the next one.      *)
(***************************************************************************)
Flight(kind, impl, method, req, pc, hash, payTx, res) ==
  [kind |-> kind, impl |-> impl, method |-> method, req |-> req, pc |-> pc,
   hash |-> hash, payTx |-> payTx, accessUnlocked |-> FALSE,
   receipt |-> Null, transaction |-> Null, calls |-> <<>>, res |-> res]

Done(f, res) == [f EXCEPT !.pc = "done", !.res = res]

Await(f, pc, calls) == [f EXCEPT !.pc = pc, !.calls = calls]

\* GET of a verify-payment route up to its first await
StartVerify(impl, query) ==
  LET txHash == trim(OrEmpty(query.payTx))
  IN IF ~isTxHash(txHash)
     THEN Flight("verify", impl, "GET", query, "done", txHash, <<>>, InvalidHash)
     ELSE Flight("verify", impl, "GET", query, "getNetwork", txHash, <<>>, Null)

\* GET of an explain route up to its first await
StartExplain(impl, query) ==
  LET tx    == trim(OrEmpty(query.tx))
      payTx == IF impl = "part_000" THEN trim(OrEmpty(query.payTx)) ELSE <<>>
      text  == IF impl = "part_000"
               THEN "Enter a valid Base transaction hash (0x...) and press Explain."
               ELSE "Enter a valid Base transaction hash to see what really happened."
  IN IF tx = <<>> \/ ~isTxHash(tx)
     THEN Flight("explain", impl, "GET", query, "done", tx, payTx,
                 Explained("Paste a transaction hash", NoFee, Text(text), tx, FALSE, <<>>))
     ELSE Flight("explain", impl, "GET", query,
                 IF payTx # <<>> THEN "isPaymentConfirmed" ELSE "getTransaction",
                 tx, payTx, Null)

\* verify resumed after the await it is suspended at
StepVerify(f, p, c) ==
  CASE f.pc = "getNetwork" ->
         LET net == withAnyProvider(p, c, Call("getNetwork", <<>>))
         IN IF ~net.ok THEN Done(f, Thrown(net.err, net.calls))
            ELSE IF isWrongNetwork(net.value)
            THEN Done(f, Res(FALSE, "FAILED", NoPaid,
                             "Wrong network. Payment must be on Base.", net.calls))
            ELSE Await(f, "getTransactionReceipt", net.calls)
    [] f.pc = "getTransactionReceipt" ->
         LET rc      == withAnyProvider(p, c, Call("getTransactionReceipt", f.hash))
             receipt == IF rc.ok THEN rc.value ELSE Null
             calls2  == f.calls \o rc.calls
         IN IF receipt = Null THEN Await(f, "getTransaction", calls2)
            ELSE IF receipt.status # 1
            THEN Done(f, Res(FALSE, "FAILED", NoPaid, "Transaction failed.", calls2))
            ELSE IF f.impl = "part_000"
            THEN [Await(f, "getBlockNumber", calls2) EXCEPT !.receipt = receipt]
            ELSE Done(f, payStatusOf(getPaidAmountFromLogs(receipt.logs), calls2))
    [] f.pc = "getBlockNumber" ->
         LET lb     == withAnyProvider(p, c, Call("getBlockNumber", <<>>))
             calls3 == f.calls \o lb.calls
         IN IF ~lb.ok THEN Done(f, Thrown(lb.err, calls3))
            ELSE IF lb.value - f.receipt.blockNumber + 1 < MIN_CONFIRMATIONS
            THEN Done(f, Res(TRUE, "PENDING", NoPaid, "Waiting for confirmations.", calls3))
            ELSE Done(f, payStatusOf(getPaidAmountFromLogs(f.receipt.logs), calls3))
    [] f.pc = "getTransaction" ->
         LET t      == withAnyProvider(p, c, Call("getTransaction", f.hash))
             calls3 == f.calls \o t.calls
         IN IF ~t.ok THEN Done(f, Thrown(t.err, calls3))
            ELSE IF t.value = Null
            THEN Done(f, Res(TRUE, "NOT_FOUND", NoPaid, "Transaction not found yet.", calls3))
            ELSE IF t.value.blockNumber = 0
            THEN Done(f, Res(TRUE, "PENDING", NoPaid, "Transaction is still pending.", calls3))
            ELSE [Await(f, "getLogs", calls3) EXCEPT !.transaction = t.value]
    [] f.pc = "getLogs" ->
         LET lg     == withAnyProvider(p, c,
                         Call("getLogs", TransferFilter(f.transaction.blockNumber)))
             calls4 == f.calls \o lg.calls
             paid   == getPaidAmountFromLogs(lg.value)
         IN IF ~lg.ok THEN Done(f, Thrown(lg.err, calls4))
            ELSE IF paid >= PRICE_USDC_UNITS
            THEN Done(f, Res(TRUE, "CONFIRMED", toUSDC(paid),
                             "Payment confirmed (logs fallback).", calls4))
            ELSE Done(f, Res(TRUE, "PENDING", toUSDC(paid),
                             "Transaction found, waiting for payment.", calls4))

\* the catch block of an explain route
ExplainFailed(f, calls) ==
  IF f.impl = "part_000"
  THEN Explained("We can't load details right now", NoFee,
                 Text("We couldn't load enough information at the moment."),
                 f.hash, f.accessUnlocked, calls)
  ELSE Explained("Unable to analyze transaction", NoFee,
                 Text("We couldn't analyze this transaction right now."),
                 f.hash, FALSE, calls)

\* what an explain route returns once transaction and receipt are read
ExplainResult(f, receipt, calls) ==
  IF f.impl = "part_000"
  THEN IF f.transaction = Null
       THEN Explained("We can't load details right now", NoFee,
                      Text("This transaction may be real, but we couldn't load its details."),
                      f.hash, f.accessUnlocked, calls)
       ELSE Explained(summaryOf(f.transaction),
                      IF receipt # Null
                      THEN [kind |-> "eth",
                            wei |-> receipt.gasUsed * receipt.effectiveGasPrice]
                      ELSE NoFee,
                      explanationLines(f.transaction,
                                       IF receipt # Null THEN classifyLogs(receipt.logs)
                                       ELSE NoLogs),
                      f.hash, f.accessUnlocked, calls)
  ELSE IF f.transaction = Null \/ receipt = Null
       THEN Explained("Transaction found", NoFee,
                      Text("We found this transaction, but details are still loading."),
                      f.hash, FALSE, calls)
       ELSE Explained(summaryOf(f.transaction), NoFee,
                      explanationLines(f.transaction, classifyLogs(receipt.logs)),
                      f.hash, TRUE, calls)

\* explain resumed after the await it is suspended at
StepExplain(f, p, c) ==
  CASE f.pc = "isPaymentConfirmed" ->
         LET pay == isPaymentConfirmed(p, c, f.payTx)
         IN [Await(f, "getTransaction", pay.calls) EXCEPT !.accessUnlocked = pay.value]
    [] f.pc = "getTransaction" ->
         LET t      == withAnyProvider(p, c, Call("getTransaction", f.hash))
             calls1 == f.calls \o t.calls
         IN IF ~t.ok THEN Done(f, ExplainFailed(f, calls1))
            ELSE [Await(f, "getTransactionReceipt", calls1) EXCEPT !.transaction = t.value]
    [] f.pc = "getTransactionReceipt" ->
         LET r      == withAnyProvider(p, c, Call("getTransactionReceipt", f.hash))
             calls2 == f.calls \o r.calls
         IN IF ~r.ok THEN Done(f, ExplainFailed(f, calls2))
            ELSE Done(f, ExplainResult(f, r.value, calls2))

\* faulty variant: accessUnlocked is declared at module level, one variable
\* for every request
Resume_sharedUnlock(fl, r, f) ==
  [k \in DOMAIN fl |->
     IF k = r THEN f ELSE [fl[k] EXCEPT !.accessUnlocked = f.accessUnlocked]]

\* a handler resumes: only its own local variables change
Resume(fl, r, f) == [fl EXCEPT ![r] = f]

(***************************************************************************)
(* The state machine.                                                       *)
(*   chain  the chain as a synced node of the accepted network sees it      *)
(*   pool   the mode of each candidate of RPC_URLS                          *)
(*   resp   the response to the last request; Idle when there is none       *)
(*   flights  the requests the server is handling, each with the position    *)
(*            and the local variables of its handler                         *)
(*   page   the state of the page in the browser and the fetches it awaits   *)
(***************************************************************************)
Idle == [op |-> "idle"]

Answer(op, impl, method, req, res) ==
  [op |-> op, impl |-> impl, method |-> method, req |-> req, res |-> res]

\* no request is being handled
NoFlights == <<>>

\* useState(...) of Home: nothing typed, nothing explained, nothing paid,
\* no fetch awaited.  fetches[n] is the n-th call of explainTx.
FreshPage ==
  [server |-> "route", tx |-> <<>>, payTx |-> <<>>, result |-> Null,
   paid |-> FALSE, loading |-> FALSE, showPayment |-> FALSE,
   verifyLoading |-> FALSE, verifying |-> Null, issued |-> 0, fetches |-> <<>>]

NoPayment ==
  [pay |-> "absent", payStatus |-> 1, payLogs |-> <<>>, extra |-> <<>>,
   tgt |-> "mined", tgtBody |-> ContractCall]

Init ==
  /\ chain = NoPayment
  /\ pool = [i \in 1..NumProviders |-> "synced"]
  /\ resp = Idle
  /\ flights = NoFlights
  /\ page = FreshPage

\* ---- the environment ----
\* a provider goes down, lags, recovers; the response held was answered by
\* the pool as it was and is dropped
ProviderChanges(i, m) ==
  /\ pool[i] # m
  /\ pool' = [pool EXCEPT ![i] = m]
  /\ resp' = Idle
  /\ UNCHANGED chain
  /\ UNCHANGED <<flights, page>>

\* the same, seen by a client that keeps the last answer while it re-polls
ProviderFlaps(i, m) ==
  /\ pool[i] # m
  /\ pool' = [pool EXCEPT ![i] = m]
  /\ UNCHANGED <<chain, resp>>
  /\ UNCHANGED <<flights, page>>

Broadcast ==
  /\ chain.pay = "absent"
  /\ chain' = [chain EXCEPT !.pay = "mempool"]
  /\ resp' = Idle
  /\ UNCHANGED pool
  /\ UNCHANGED <<flights, page>>

MineOk(logs, extra) ==
  /\ chain.pay = "mempool"
  /\ chain' = [chain EXCEPT !.pay = "mined", !.payStatus = 1,
                            !.payLogs = logs, !.extra = extra]
  /\ resp' = Idle
  /\ UNCHANGED pool
  /\ UNCHANGED <<flights, page>>

MineReverted(extra) ==
  /\ chain.pay = "mempool"
  /\ chain' = [chain EXCEPT !.pay = "mined", !.payStatus = 0,
                            !.payLogs = <<>>, !.extra = extra]
  /\ resp' = Idle
  /\ UNCHANGED pool
  /\ UNCHANGED <<flights, page>>

Reorg ==
  /\ chain.pay = "mined"
  /\ chain' = [chain EXCEPT !.pay = "mempool", !.payStatus = 1,
                            !.payLogs = <<>>, !.extra = <<>>]
  /\ resp' = Idle
  /\ UNCHANGED pool
  /\ UNCHANGED <<flights, page>>

ChainChanges ==
  \/ Broadcast
  \/ \E logs \in PayLogChoices, extra \in ExtraLogChoices : MineOk(logs, extra)
  \/ \E extra \in ExtraLogChoices : MineReverted(extra)
  \/ Reorg

\* ---- the routes ----
ExplainRoute(q) ==
  /\ resp' = Answer("explain", "route", "GET", q, GET_explain(pool, chain, q))
  /\ UNCHANGED <<chain, pool>>
  /\ UNCHANGED <<flights, page>>

ExplainP0(q) ==
  /\ resp' = Answer("explain", "part_000", "GET", q, GET_explain_p0(pool, chain, q))
  /\ UNCHANGED <<chain, pool>>
  /\ UNCHANGED <<flights, page>>

VerifyGET(q) ==
  /\ resp' = Answer("verify", "route", "GET", q, GET_verify(pool, chain, q))
  /\ UNCHANGED <<chain, pool>>
  /\ UNCHANGED <<flights, page>>

VerifyPOST(b) ==
  /\ resp' = Answer("verify", "route", "POST", b, POST_verify(pool, chain, b))
  /\ UNCHANGED <<chain, pool>>
  /\ UNCHANGED <<flights, page>>

VerifyGET_p0(q) ==
  /\ resp' = Answer("verify", "part_000", "GET", q, GET_verify_p0(pool, chain, q))
  /\ UNCHANGED <<chain, pool>>
  /\ UNCHANGED <<flights, page>>

VerifyPOST_p0(b) ==
  /\ resp' = Answer("verify", "part_000", "POST", b, POST_verify_p0(pool, chain, b))
  /\ UNCHANGED <<chain, pool>>
  /\ UNCHANGED <<flights, page>>

\* one read through the pool
PoolRead(call) ==
  /\ resp' = Answer("pool", "withAnyProvider", call.method, call,
                    withAnyProvider(pool, chain, call))
  /\ UNCHANGED <<chain, pool>>
  /\ UNCHANGED <<flights, page>>

\* ---- requests handled concurrently ----
\* the server accepts a request and runs its handler to the first await
Accept(r, f) ==
  /\ r \notin DOMAIN flights
  /\ flights' = [k \in DOMAIN flights \cup {r} |-> IF k = r THEN f ELSE flights[k]]
  /\ UNCHANGED <<chain, pool, resp, page>>

\* the call a handler awaits completes and the handler runs to its next await
Step(r) ==
  /\ r \in DOMAIN flights
  /\ flights[r].pc # "done"
  /\ flights' = Resume(flights, r,
                       IF flights[r].kind = "verify"
                       THEN StepVerify(flights[r], pool, chain)
                       ELSE StepExplain(flights[r], pool, chain))
  /\ UNCHANGED <<chain, pool, resp, page>>

\* the handler returns its response
Respond(r) ==
  /\ r \in DOMAIN flights
  /\ flights[r].pc = "done"
  /\ resp' = Answer(flights[r].kind, flights[r].impl, flights[r].method,
                    flights[r].req, flights[r].res)
  /\ flights' = [k \in DOMAIN flights \ {r} |-> flights[k]]
  /\ UNCHANGED <<chain, pool, page>>

(***************************************************************************)
(* Spec: the routes answering well-formed requests while the chain and the  *)
(* providers change.                                                        *)
(***************************************************************************)
ExplainQueries ==
  [tx : {TGT_HASH, LOST_HASH}, payTx : {Absent, PAY_HASH}, unlocked : {Absent, <<"1">>}]

VerifyQueries == [payTx : {PAY_HASH, <<" ">> \o PAY_HASH \o <<"\n">>}]

VerifyBodies == [txHash : {PAY_HASH, LOST_HASH}]

Next ==
  \/ \E i \in 1..NumProviders, m \in Modes : ProviderChanges(i, m)
  \/ ChainChanges
  \/ \E q \in ExplainQueries : ExplainRoute(q)
  \/ \E q \in ExplainQueries : ExplainP0(q)
  \/ \E q \in VerifyQueries : VerifyGET(q)
  \/ \E b \in VerifyBodies : VerifyPOST(b)
  \/ \E q \in VerifyQueries : VerifyGET_p0(q)
  \/ \E b \in VerifyBodies : VerifyPOST_p0(b)

Spec == Init /\ [][Next]_vars

(***************************************************************************)
(* SpecInput: the routes answering malformed requests, the payment mined    *)
(* and sufficient, the providers changing.                                  *)
(***************************************************************************)
Paid ==
  [NoPayment EXCEPT !.pay = "mined", !.payLogs = <<Xfer(PRICE_USDC_UNITS)>>]

\* strings the pattern of isTxHash does not match, also after trim
Malformed ==
  { <<>>,
    <<" ", "\t">>,
    <<"0", "x">> \o Rep("b", HashDigits - 1),
    <<"0", "x">> \o Rep("b", HashDigits + 1),
    <<"0", "X">> \o Rep("b", HashDigits),
    <<"b", "b">> \o Rep("b", HashDigits),
    <<"0", "x">> \o Rep("b", HashDigits - 1) \o <<"g">>,
    <<"0", "x", " ">> \o Rep("b", HashDigits - 1),
    <<"0", "x">> \o Rep("b", HashDigits) \o <<"\n", "0">>,
    Rep("b", HashDigits) }

BadExplainQueries ==
  [tx : Malformed \cup {Absent}, payTx : {Absent, PAY_HASH}, unlocked : {Absent}]

BadVerifyQueries == [payTx : Malformed \cup {Absent}]

BadVerifyBodies == [txHash : Malformed \cup {Absent}]

InitInput ==
  /\ chain = Paid
  /\ pool = [i \in 1..NumProviders |-> "synced"]
  /\ resp = Idle
  /\ flights = NoFlights
  /\ page = FreshPage

NextInput ==
  \/ \E i \in 1..NumProviders, m \in Modes : ProviderChanges(i, m)
  \/ \E q \in BadExplainQueries : ExplainRoute(q)
  \/ \E q \in BadExplainQueries : ExplainP0(q)
  \/ \E q \in BadVerifyQueries : VerifyGET(q)
  \/ \E b \in BadVerifyBodies : VerifyPOST(b)
  \/ \E q \in BadVerifyQueries : VerifyGET_p0(q)
  \/ \E b \in BadVerifyBodies : VerifyPOST_p0(b)

SpecInput == InitInput /\ [][NextInput]_vars

(***************************************************************************)
(* SpecPool: single reads through withAnyProvider.                          *)
(***************************************************************************)
PoolCalls ==
  { Call("getBlockNumber", <<>>), Call("getNetwork", <<>>),
    Call("getTransaction", PAY_HASH), Call("getTransactionReceipt", PAY_HASH),
    Call("getLogs", TransferFilter(2)) }

NextPool ==
  \/ \E i \in 1..NumProviders, m \in Modes : ProviderChanges(i, m)
  \/ ChainChanges
  \/ \E call \in PoolCalls : PoolRead(call)

SpecPool == Init /\ [][NextPool]_vars

(***************************************************************************)
(* SpecPoll: a client polling verify-payment for the payment transaction,   *)
(* keeping the last answer.                                                 *)
(***************************************************************************)
PollQueries == [payTx : {PAY_HASH}]

NextPoll ==
  \/ \E i \in 1..NumProviders, m \in Modes : ProviderFlaps(i, m)
  \/ ChainChanges
  \/ \E q \in PollQueries : VerifyGET(q)
  \/ \E q \in PollQueries : VerifyGET_p0(q)

SpecPoll == Init /\ [][NextPoll]_vars

(***************************************************************************)
(* SpecPollFair: the same client, polling for ever (each press of the       *)
(* verify button is answered, and the client presses again), while the      *)
(* payment is broadcast and mined and the candidates before the last one    *)
(* change; the last candidate stays synced.                                 *)
(***************************************************************************)
NextPollFair ==
  \/ \E i \in 1..(NumProviders - 1), m \in Modes : ProviderFlaps(i, m)
  \/ Broadcast
  \/ \E logs \in PayLogChoices, extra \in ExtraLogChoices : MineOk(logs, extra)
  \/ \E q \in PollQueries : VerifyGET(q)
  \/ \E q \in PollQueries : VerifyGET_p0(q)

SpecPollFair ==
  /\ Init
  /\ [][NextPollFair]_vars
  /\ WF_vars(\E q \in PollQueries : VerifyGET(q))
  /\ WF_vars(\E q \in PollQueries : VerifyGET_p0(q))

(***************************************************************************)
(* SpecExplain: the explain routes answering for a target transaction of    *)
(* any kind, with no payment, an insufficient one or a sufficient one on    *)
(* the chain, while the providers change.                                   *)
(***************************************************************************)
Underpaid ==
  [NoPayment EXCEPT !.pay = "mined", !.payLogs = <<Xfer(PRICE_USDC_UNITS - 1)>>]

TargetQueries == [tx : {TGT_HASH}, payTx : {Absent, PAY_HASH}, unlocked : {Absent}]

InitExplain ==
  /\ chain \in { [c EXCEPT !.tgtBody = b] :
                   c \in {NoPayment, Underpaid, Paid}, b \in TargetBodies }
  /\ pool = [i \in 1..NumProviders |-> "synced"]
  /\ resp = Idle
  /\ flights = NoFlights
  /\ page = FreshPage

NextExplain ==
  \/ \E i \in 1..NumProviders, m \in Modes : ProviderChanges(i, m)
  \/ \E q \in TargetQueries : ExplainRoute(q)
  \/ \E q \in TargetQueries : ExplainP0(q)

SpecExplain == InitExplain /\ [][NextExplain]_vars

(***************************************************************************)
(* SpecClassify: the explain routes classifying a target whose receipt      *)
(* holds any list of at most MaxLogs logs.                                  *)
(***************************************************************************)
\* decodable, of another event, malformed; one contract in two letter cases
LogAlphabet ==
  { ApprovalLog, Xfer(5), DecoyToken, UnknownLog, DecoyMalformed }

LogLists == UNION { [1..n -> LogAlphabet] : n \in 0..MaxLogs }

InitClassify ==
  /\ chain \in { [NoPayment EXCEPT !.tgtBody.logs = logs] : logs \in LogLists }
  /\ pool = [i \in 1..NumProviders |-> "synced"]
  /\ resp = Idle
  /\ flights = NoFlights
  /\ page = FreshPage

NextClassify ==
  \/ \E q \in TargetQueries : ExplainRoute(q)
  \/ \E q \in TargetQueries : ExplainP0(q)

SpecClassify == InitClassify /\ [][NextClassify]_vars

(***************************************************************************)
(* SpecPaid: the payment mined successfully with any list of at most        *)
(* MaxLogs logs, verified by both verify-payment routes and by explain.     *)
(***************************************************************************)
\* a qualifying transfer from another sender, with the contract and the
\* recipient written in other letter cases
TransferFromOther ==
  [Log(<<"usdc", "checksum">>, "Transfer", TRUE, <<"payment", "lower">>, 1)
     EXCEPT !.from = <<"other", "lower">>]

\* an Approval of the stablecoin contract naming the payment address
ApprovalToPayment ==
  Log(<<"usdc", "lower">>, "Approval", TRUE, <<"payment", "checksum">>, PRICE_USDC_UNITS)

PayLogAlphabet ==
  { Xfer(PRICE_USDC_UNITS - 1), TransferFromOther, DecoyToken, DecoyRecipient,
    DecoyMalformed, ApprovalToPayment }

PayLogLists == UNION { [1..n -> PayLogAlphabet] : n \in 0..MaxLogs }

PaidQueries == [tx : {TGT_HASH}, payTx : {PAY_HASH}, unlocked : {Absent}]

InitPaid ==
  /\ chain \in { [NoPayment EXCEPT !.pay = "mined", !.payLogs = logs] :
                   logs \in PayLogLists }
  /\ pool = [i \in 1..NumProviders |-> "synced"]
  /\ resp = Idle
  /\ flights = NoFlights
  /\ page = FreshPage

NextPaid ==
  \/ \E q \in PollQueries : VerifyGET(q)
  \/ \E q \in PollQueries : VerifyGET_p0(q)
  \/ \E q \in PaidQueries : ExplainP0(q)

SpecPaid == InitPaid /\ [][NextPaid]_vars

(***************************************************************************)
(* SpecConc: up to MaxInFlight requests handled at once, their awaits       *)
(* interleaved in any order.  The payment is mined in full; the first       *)
(* candidate changes while no request is being handled.                     *)
(***************************************************************************)
ConcModes == {"synced", "noReceipt", "stale"}

Arrivals ==
  { StartVerify(impl, q) : impl \in {"route", "part_000"}, q \in PollQueries }
    \cup { StartExplain(impl, q) : impl \in {"route", "part_000"}, q \in TargetQueries }

InitConc ==
  /\ chain = Paid
  /\ pool = [i \in 1..NumProviders |-> "synced"]
  /\ resp = Idle
  /\ flights = NoFlights
  /\ page = FreshPage

NextConc ==
  \/ \E m \in ConcModes : flights = NoFlights /\ ProviderChanges(1, m)
  \/ \E r \in 1..MaxInFlight, f \in Arrivals : Accept(r, f)
  \/ \E r \in 1..MaxInFlight : Step(r)
  \/ \E r \in 1..MaxInFlight : Respond(r)

SpecConc == InitConc /\ [][NextConc]_vars

(***************************************************************************)
(* SpecPage: the page client of src/app/page.tsx against one of the two     *)
(* servers.  A fetch is answered by the route when its response arrives,    *)
(* or fails on the way; responses arrive in any order.  The payment is      *)
(* mined in full and every provider is synced.                              *)
(***************************************************************************)
PageTxs == {TGT_HASH, LOST_HASH}

\* const isUnlocked = Boolean(result?.accessUnlocked) && paid
isUnlocked(pg) == pg.result # Null /\ pg.result.accessUnlocked /\ pg.paid

\* the payment panel with the payTx input and the verify button is rendered
PanelShown(pg) == pg.result # Null /\ ~isUnlocked(pg) /\ pg.showPayment

\* setResult({...}) of explainTx for the response data
Shown(data) ==
  [summary |-> data.summary, fee |-> data.fee, explanation |-> data.explanation,
   basescan |-> data.basescan, accessUnlocked |-> data.accessUnlocked]

\* the catch block of explainTx
NetworkIssue ==
  [summary |-> "Network issue", fee |-> NoFee,
   explanation |-> Text("Unable to reach the service. Please try again."),
   basescan |-> Absent, accessUnlocked |-> FALSE]

\* explainTx() up to its fetch, with the tx and payTx of the render it closes over
explainTx(pg, tx, payTx, fromVerify) ==
  [pg EXCEPT !.loading = TRUE, !.result = Null, !.showPayment = FALSE,
             !.issued = pg.issued + 1,
             !.fetches = Append(pg.fetches,
                                [tx |-> tx, payTx |-> payTx,
                                 fromVerify |-> fromVerify, shown |-> Null])]

\* what /api/explain answers to the n-th fetch
ExplainData(pg, n) ==
  LET q == [tx |-> pg.fetches[n].tx,
            payTx |-> IF pg.fetches[n].payTx = <<>> THEN Absent ELSE pg.fetches[n].payTx,
            unlocked |-> Absent]
  IN IF pg.server = "route" THEN GET_explain(pool, chain, q)
     ELSE GET_explain_p0(pool, chain, q)

\* what /api/verify-payment answers
VerifyData(pg) ==
  IF pg.server = "route" THEN GET_verify(pool, chain, [payTx |-> pg.verifying.payTx])
  ELSE GET_verify_p0(pool, chain, [payTx |-> pg.verifying.payTx])

\* onChange of the transaction input
TypeTx(t) ==
  /\ page.tx # t
  /\ page' = [page EXCEPT !.tx = t]
  /\ UNCHANGED <<chain, pool, resp, flights>>

\* onChange of the payment input
TypePayTx(t) ==
  /\ PanelShown(page)
  /\ page.payTx # t
  /\ page' = [page EXCEPT !.payTx = t]
  /\ UNCHANGED <<chain, pool, resp, flights>>

\* the Explain button (disabled while loading)
ClickExplain ==
  /\ ~page.loading
  /\ page.tx # <<>>
  /\ page.issued < MaxIssued
  /\ page' = explainTx(page, page.tx, page.payTx, FALSE)
  /\ UNCHANGED <<chain, pool, resp, flights>>

\* the Unlock button
ClickUnlock ==
  /\ page.result # Null
  /\ ~isUnlocked(page)
  /\ ~page.showPayment
  /\ page' = [page EXCEPT !.showPayment = TRUE]
  /\ UNCHANGED <<chain, pool, resp, flights>>

\* the verify button (disabled while verifyLoading): verifyPayment up to its fetch
ClickVerify ==
  /\ PanelShown(page)
  /\ ~page.verifyLoading
  /\ page.payTx # <<>>
  /\ page' = [page EXCEPT !.verifyLoading = TRUE,
                          !.verifying = [tx |-> page.tx, payTx |-> page.payTx]]
  /\ UNCHANGED <<chain, pool, resp, flights>>

\* verifyPayment after its fetch: CONFIRMED sets paid and calls explainTx,
\* anything else, a failed fetch included, clears paid
VerifyArrives(reached) ==
  /\ page.verifying # Null
  /\ \E data \in {VerifyData(page)} :
       LET confirmed == reached /\ data.status = "CONFIRMED"
           closed    == [page EXCEPT !.verifying = Null]
       IN IF confirmed
          THEN IF page.verifying.tx = <<>>
               THEN page' = [closed EXCEPT !.paid = TRUE, !.showPayment = FALSE,
                                           !.verifyLoading = FALSE]
               ELSE /\ page.issued < MaxIssued
                    /\ page' = explainTx([closed EXCEPT !.paid = TRUE],
                                         page.verifying.tx, page.verifying.payTx, TRUE)
          ELSE page' = [closed EXCEPT !.paid = FALSE, !.verifyLoading = FALSE]
  /\ UNCHANGED <<chain, pool, resp, flights>>

\* explainTx after its fetch, and verifyPayment after its await explainTx()
ExplainArrives(n, reached) ==
  /\ n \in 1..page.issued
  /\ page.fetches[n].shown = Null
  /\ \E data \in {ExplainData(page, n)} :
       LET shown == IF reached THEN Shown(data) ELSE NetworkIssue
           set   == [page EXCEPT !.result = shown, !.paid = shown.accessUnlocked,
                                 !.loading = FALSE, !.fetches[n].shown = shown]
       IN page' = IF page.fetches[n].fromVerify
                  THEN [set EXCEPT !.showPayment = FALSE, !.verifyLoading = FALSE]
                  ELSE set
  /\ UNCHANGED <<chain, pool, resp, flights>>

InitPage ==
  /\ chain = Paid
  /\ pool = [i \in 1..NumProviders |-> "synced"]
  /\ resp = Idle
  /\ flights = NoFlights
  /\ page \in { [FreshPage EXCEPT !.server = sv] : sv \in {"route", "part_000"} }

NextPage ==
  \/ \E t \in PageTxs : TypeTx(t)
  \/ TypePayTx(PAY_HASH)
  \/ ClickExplain
  \/ ClickUnlock
  \/ ClickVerify
  \/ \E reached \in BOOLEAN : VerifyArrives(reached)
  \/ \E n \in 1..MaxIssued, reached \in BOOLEAN : ExplainArrives(n, reached)

SpecPage == InitPage /\ [][NextPage]_vars

(***************************************************************************)
(* Properties.                                                              *)
(***************************************************************************)
IsExplain == resp.op = "explain"

IsVerify == resp.op = "verify"

ReqTx == trim(OrEmpty(resp.req.tx))

ReqPayTx == trim(OrEmpty(resp.req.payTx))

\* the hash a verify-payment request carries, trimmed
VerifyHash ==
  trim(OrEmpty(IF resp.method = "GET" THEN resp.req.payTx ELSE resp.req.txHash))

\* the pattern ^0x[a-fA-F0-9]{64}$ as the specification words it: a 0x
\* prefix, then exactly 64 hexadecimal digits
HashPattern(x) ==
  /\ Len(x) = 66
  /\ SubSeq(x, 1, 2) = <<"0", "x">>
  /\ { x[i] : i \in 3..Len(x) } \subseteq HexChars

\* what the pool answers, in the current state, to the reads of a verification
NetworkSeen == withAnyProvider(pool, chain, Call("getNetwork", <<>>))

ReceiptSeen(h) == withAnyProvider(pool, chain, Call("getTransactionReceipt", h))

HeightSeen == withAnyProvider(pool, chain, Call("getBlockNumber", <<>>))

OnAcceptedNetwork == NetworkSeen.ok /\ NetworkSeen.value.chainId = 8453

GotSuccessfulReceipt(h) ==
  /\ ReceiptSeen(h).ok
  /\ ReceiptSeen(h).value # Null
  /\ ReceiptSeen(h).value.status = 1

\* the sum of the qualifying inbound transfers of a list of logs: stablecoin
\* contract, Transfer, recipient the payment address
Qualifies(l) ==
  /\ l.address[1] = "usdc"
  /\ l.sig = "Transfer"
  /\ l.wellFormed
  /\ l.to[1] = "payment"

RECURSIVE SumValues(_)
SumValues(ls) == IF ls = <<>> THEN 0 ELSE Head(ls).value + SumValues(Tail(ls))

QualifyingSum(logs) == SumValues(SelectSeq(logs, Qualifies))

\* C1: an explain request that supplies no payment reference returns
\* accessUnlocked = false, whatever the target and the chain/provider state.
C1_NoPaymentNeverUnlocks ==
  (IsExplain /\ ReqPayTx = <<>>) => ~resp.res.accessUnlocked

\* C2: with a valid target id and a payment reference, explain returns
\* unlock = true exactly when verifyPayment on that reference, against the
\* same chain/provider state, returns CONFIRMED.  Stated of the explain
\* route that reads the payment reference.
C2_UnlockIffVerifierConfirms ==
  (IsExplain /\ resp.impl = "part_000" /\ HashPattern(ReqTx) /\ ReqPayTx # <<>>)
    => /\ resp.res.accessUnlocked
            <=> (verify_p0(pool, chain, ReqPayTx).status = "CONFIRMED")
       /\ resp.res.accessUnlocked
            <=> (verify(pool, chain, ReqPayTx).status = "CONFIRMED")

\* C3: the unlock flag of explain depends on the payment reference and the
\* chain state only: a request of the same route that differs in the
\* (well-formed) target id or in other fields, and carries the same payment
\* reference, gets the same unlock flag.
C3_UnlockIgnoresTarget ==
  (IsExplain /\ HashPattern(ReqTx))
    => \A q \in ExplainQueries :
         (HashPattern(trim(OrEmpty(q.tx))) /\ q.payTx = resp.req.payTx)
           => LET other == IF resp.impl = "route"
                           THEN GET_explain(pool, chain, q)
                           ELSE GET_explain_p0(pool, chain, q)
              IN other.accessUnlocked = resp.res.accessUnlocked

\* C4: an input that does not match the hash pattern after trimming is
\* rejected before any provider call: explain answers the placeholder with
\* unlock = false, verify-payment (GET and POST) answers FAILED with the
\* invalid-hash message, and no provider request is issued.
C4_MalformedRejectedWithoutCalls ==
  /\ (IsExplain /\ ~HashPattern(ReqTx))
       => /\ resp.res.summary = "Paste a transaction hash"
          /\ ~resp.res.accessUnlocked
          /\ resp.res.calls = <<>>
  /\ (IsVerify /\ ~HashPattern(VerifyHash))
       => /\ ~resp.res.threw
          /\ resp.res.status = "FAILED"
          /\ resp.res.message = "Invalid tx hash."
          /\ resp.res.calls = <<>>

C4_Witness ==
  /\ IsExplain
  /\ resp.impl = "part_000"
  /\ resp.req.tx = <<"0", "x">> \o Rep("b", 65)
  /\ resp.req.payTx = PAY_HASH
  /\ pool[1] = "synced"
  /\ resp.res.summary = "Paste a transaction hash"
  /\ resp.res.calls = <<>>

\* C5 as claimed: on the accepted network, when verifyPayment obtains a
\* successful receipt, it returns CONFIRMED if the qualifying sum is at
\* least the price and PENDING if it is smaller, with the sum attached.
C5_ReceiptDecidedByAmount ==
  (IsVerify /\ HashPattern(VerifyHash) /\ OnAcceptedNetwork
     /\ GotSuccessfulReceipt(VerifyHash))
    => LET sum == QualifyingSum(ReceiptSeen(VerifyHash).value.logs)
       IN /\ ~resp.res.threw
          /\ resp.res.status = IF sum >= 3000000 THEN "CONFIRMED" ELSE "PENDING"
          /\ resp.res.paidUSDC = toUSDC(sum)

\* the confirmation depth the part_000 verify computes from the height it reads
DepthReached(h) ==
  /\ HeightSeen.ok
  /\ HeightSeen.value - ReceiptSeen(h).value.blockNumber + 1 >= 1

\* C5 as amended: the same, provided that in the verify that enforces a
\* confirmation depth (part_000) the height read gives a depth of at least
\* the minimum.
C5_ReceiptDecidedByAmountAtDepth ==
  (IsVerify /\ HashPattern(VerifyHash) /\ OnAcceptedNetwork
     /\ GotSuccessfulReceipt(VerifyHash)
     /\ (resp.impl = "part_000" => DepthReached(VerifyHash)))
    => LET sum == QualifyingSum(ReceiptSeen(VerifyHash).value.logs)
       IN /\ ~resp.res.threw
          /\ resp.res.status = IF sum >= 3000000 THEN "CONFIRMED" ELSE "PENDING"
          /\ resp.res.paidUSDC = toUSDC(sum)

C5_Witness ==
  /\ IsVerify
  /\ resp.impl = "part_000"
  /\ OnAcceptedNetwork
  /\ GotSuccessfulReceipt(VerifyHash)
  /\ QualifyingSum(ReceiptSeen(VerifyHash).value.logs) = 3000000
  /\ resp.res.status = "CONFIRMED"
  /\ resp.res.paidUSDC = [whole |-> 3, micro |-> 0]

\* C6: whenever the network id the pool returns differs from the accepted
\* one, verifyPayment returns FAILED (wrong network) for every well-formed
\* payment reference, whatever receipt, transaction or logs exist.
C6_WrongNetworkFails ==
  (IsVerify /\ HashPattern(VerifyHash) /\ NetworkSeen.ok
     /\ NetworkSeen.value.chainId # 8453)
    => /\ ~resp.res.threw
       /\ resp.res.status = "FAILED"
       /\ resp.res.message = "Wrong network. Payment must be on Base."

C6_Witness ==
  /\ IsVerify
  /\ VerifyHash = PAY_HASH
  /\ chain.pay = "mined"
  /\ chain.payStatus = 1
  /\ pool[1] = "opErr"
  /\ pool[2] = "foreign"
  /\ resp.res.status = "FAILED"
  /\ resp.res.message = "Wrong network. Payment must be on Base."

\* C7: for a payment transaction mined with a failed execution status,
\* verifyPayment never returns CONFIRMED, whichever providers respond and
\* whether or not the receipt read succeeds.
C7_RevertedNeverConfirmed ==
  (IsVerify /\ VerifyHash = PAY_HASH /\ chain.pay = "mined" /\ chain.payStatus = 0)
    => resp.res.status # "CONFIRMED"

\* C8: no provider failure escapes a public operation as a thrown error:
\* explain answers an ExplanationResult, verifyPayment a PaymentStatus.
C8_NoErrorEscapes ==
  (IsExplain \/ IsVerify) => ~resp.res.threw

\* C9: if the first N-1 candidates fail their liveness probe and the Nth
\* answers the probe and the read, withAnyProvider returns the Nth
\* candidate's result; if all N candidates fail, it throws.
C9_Failover ==
  resp.op = "pool" =>
    LET n    == NumProviders
        call == resp.req
        fails(i) == Probe(pool[i], chain, i).threw \/ Read(pool[i], chain, i, call).threw
    IN /\ ((\A i \in 1..(n - 1) : pool[i] = "down") /\ ~fails(n))
            => /\ resp.res.ok
               /\ resp.res.by = n
               /\ resp.res.value = Read(pool[n], chain, n, call).value
       /\ (\A i \in 1..n : fails(i)) => ~resp.res.ok

C9_Witness ==
  /\ resp.op = "pool"
  /\ \A i \in 1..(NumProviders - 1) : pool[i] = "down"
  /\ pool[NumProviders] = "synced"
  /\ chain.pay = "mined"
  /\ resp.req.method = "getTransactionReceipt"
  /\ resp.res.ok
  /\ resp.res.by = NumProviders
  /\ resp.res.value # Null

\* C10: two consecutive verifyPayment calls with the same payment reference
\* and no change of chain state between them, the first returning
\* CONFIRMED: when the second returns CONFIRMED too, it carries the same
\* paid amount.
C10_SamePaidAmount ==
  [][(/\ IsVerify
      /\ resp.res.status = "CONFIRMED"
      /\ chain' = chain
      /\ resp'.op = "verify"
      /\ resp'.impl = resp.impl
      /\ resp'.req = resp.req
      /\ resp'.res.status = "CONFIRMED")
     => resp'.res.paidUSDC = resp.res.paidUSDC]_vars

\* what the pool answers, in the current state, to getTransaction
TxSeen(h) == withAnyProvider(pool, chain, Call("getTransaction", h))

NoReceiptObtained(h) == ~ReceiptSeen(h).ok \/ ReceiptSeen(h).value = Null

\* C11: on the accepted network, when verifyPayment obtains no receipt, the
\* transaction record decides: no record gives NOT_FOUND, a record without
\* block number gives PENDING (neither CONFIRMED nor FAILED), both without
\* a paid amount.
C11_RecordDecidesWithoutReceipt ==
  (IsVerify /\ HashPattern(VerifyHash) /\ OnAcceptedNetwork
     /\ NoReceiptObtained(VerifyHash) /\ TxSeen(VerifyHash).ok)
    => /\ TxSeen(VerifyHash).value = Null
            => /\ ~resp.res.threw
               /\ resp.res.status = "NOT_FOUND"
               /\ resp.res.paidUSDC = NoPaid
       /\ (TxSeen(VerifyHash).value # Null /\ TxSeen(VerifyHash).value.blockNumber = 0)
            => /\ ~resp.res.threw
               /\ resp.res.status = "PENDING"
               /\ resp.res.paidUSDC = NoPaid

\* a broadcast payment, not yet in a block, polled through a synced candidate
C11_Witness ==
  /\ IsVerify
  /\ VerifyHash = PAY_HASH
  /\ chain.pay = "mempool"
  /\ OnAcceptedNetwork
  /\ NoReceiptObtained(PAY_HASH)
  /\ TxSeen(PAY_HASH).value # Null
  /\ TxSeen(PAY_HASH).value.blockNumber = 0
  /\ resp.res.status = "PENDING"
  /\ resp.res.message = "Transaction is still pending."

\* the payment is mined, successful, and its own qualifying transfers reach
\* the price
PaidInFull ==
  /\ chain.pay = "mined"
  /\ chain.payStatus = 1
  /\ QualifyingSum(chain.payLogs) >= 3000000

\* C12: PENDING and NOT_FOUND are not terminal: once the payment is mined
\* successfully with qualifying transfers of at least the price, and one
\* provider stays responsive, a client that keeps polling eventually gets
\* CONFIRMED.
C12_PollingEventuallyConfirms ==
  PaidInFull ~> (IsVerify /\ resp.res.status = "CONFIRMED")

\* the explain route that answered, asked again with another query
ExplainAgain(q) ==
  IF resp.impl = "route" THEN GET_explain(pool, chain, q)
  ELSE GET_explain_p0(pool, chain, q)

\* explain got the target's record and what else its classification needs:
\* both reads answered, and the explain of route.ts also needs the receipt
TargetObtained ==
  /\ TxSeen(ReqTx).ok
  /\ TxSeen(ReqTx).value # Null
  /\ ReceiptSeen(ReqTx).ok
  /\ resp.impl = "route" => ReceiptSeen(ReqTx).value # Null

\* C13: when explain obtains the target's record and classifies it, the
\* summary is "ETH transfer" exactly when the value is strictly positive
\* and the payload is empty, "Contract interaction" otherwise; summary, fee,
\* explanation lines and explorer link are the same with no payment
\* reference, an unconfirmed one or a confirmed one.
C13_SummaryByValueAndPayload ==
  (IsExplain /\ HashPattern(ReqTx) /\ TargetObtained)
    => /\ resp.res.explanation.kind = "lines"
       /\ resp.res.summary =
            IF TxSeen(ReqTx).value.value > 0 /\ TxSeen(ReqTx).value.data = "0x"
            THEN "ETH transfer" ELSE "Contract interaction"
       /\ \A q \in TargetQueries :
            q.tx = resp.req.tx
              => /\ ExplainAgain(q).summary = resp.res.summary
                 /\ ExplainAgain(q).fee = resp.res.fee
                 /\ ExplainAgain(q).explanation = resp.res.explanation
                 /\ ExplainAgain(q).basescan = resp.res.basescan

\* a plain transfer explained with a confirmed payment reference
C13_Witness ==
  /\ IsExplain
  /\ resp.impl = "part_000"
  /\ ReqPayTx = PAY_HASH
  /\ chain.tgtBody = PlainTransfer
  /\ chain.pay = "mined"
  /\ TargetObtained
  /\ resp.res.accessUnlocked
  /\ resp.res.summary = "ETH transfer"

\* the counts of the log classifier, from the logs as the chain has them:
\* a log decodes as an event when its first topic names the event and its
\* topics and data decode
DecodesAs(l, event) == l.sig = event /\ l.wellFormed

CountOf(logs, event) ==
  Cardinality({ k \in 1..Len(logs) : DecodesAs(logs[k], event) })

DistinctEmitters(logs) == Cardinality({ logs[k].address[1] : k \in 1..Len(logs) })

RiskFor(logs) ==
  IF CountOf(logs, "Approval") > 0 THEN "Medium"
  ELSE IF DistinctEmitters(logs) > 1 THEN "Low-Medium"
  ELSE "Low"

\* C14: for every list of receipt logs the classifier reports the number of
\* distinct lower-cased emitting addresses over all logs, the number of
\* logs decodable as Transfer, the number decodable as Approval, and the
\* risk Medium / Low-Medium / Low by approvals and contracts touched;
\* undecodable logs change no counter and raise no error.
C14_LogClassifier ==
  (IsExplain /\ HashPattern(ReqTx) /\ TargetObtained
     /\ ReceiptSeen(ReqTx).value # Null)
    => LET logs == ReceiptSeen(ReqTx).value.logs
       IN /\ resp.res.explanation.kind = "lines"
          /\ resp.res.explanation.touched = DistinctEmitters(logs)
          /\ resp.res.explanation.tokenTransfers = CountOf(logs, "Transfer")
          /\ resp.res.explanation.approvals = CountOf(logs, "Approval")
          /\ resp.res.explanation.risk = RiskFor(logs)

\* one Approval log and one Transfer log from two distinct contracts
C14_Witness ==
  /\ IsExplain
  /\ TargetObtained
  /\ ReceiptSeen(ReqTx).value # Null
  /\ ReceiptSeen(ReqTx).value.logs = <<ApprovalLog, Xfer(5)>>
  /\ resp.res.explanation.touched = 2
  /\ resp.res.explanation.tokenTransfers = 1
  /\ resp.res.explanation.approvals = 1
  /\ resp.res.explanation.risk = "Medium"

\* the provider requests of the payment verification behind the response:
\* all of a verify-payment call, and in explain those of isPaymentConfirmed
PaymentCalls ==
  IF IsVerify THEN resp.res.calls
  ELSE IF resp.impl = "part_000" /\ HashPattern(ReqTx) /\ ReqPayTx # <<>>
  THEN isPaymentConfirmed(pool, chain, ReqPayTx).calls
  ELSE <<>>

PaymentReads == {"getTransactionReceipt", "getTransaction", "getLogs"}

NetworkCheckedBefore(calls) ==
  \A k \in 1..Len(calls) :
    calls[k].method \in PaymentReads
      => /\ \E j \in 1..(k - 1) : calls[j].method = "getNetwork"
         /\ OnAcceptedNetwork

\* C15: within one payment verification (verify-payment, and the
\* verification explain performs for a payment reference) no receipt,
\* transaction or log query is issued before the network-id query has
\* returned the accepted network id; on a mismatch none is issued.
C15_NetworkCheckedFirst ==
  (IsVerify \/ IsExplain) => NetworkCheckedBefore(PaymentCalls)

IsPoolRead == resp.op = "pool"

\* candidate i answers the liveness probe and the read asked for
Answers(i) ==
  /\ ~Probe(pool[i], chain, i).threw
  /\ ~Read(pool[i], chain, i, resp.req).threw

\* what candidate i would answer to the read
AnswerOf(i) == Read(pool[i], chain, i, resp.req).value

\* C16: as soon as one candidate answers the probe and the read, its result
\* is returned and no later candidate is probed or queried, also when the
\* result is empty (null, no logs) and a later candidate holds the record.
C16_FirstAnswerWins ==
  IsPoolRead =>
    \A i \in 1..NumProviders :
      (Answers(i) /\ \A j \in 1..(i - 1) : ~Answers(j))
        => /\ resp.res.ok
           /\ resp.res.by = i
           /\ resp.res.value = AnswerOf(i)
           /\ \A k \in 1..Len(resp.res.calls) : resp.res.calls[k].provider <= i

\* the first candidate has no receipt, a later one holds it
C16_Witness ==
  /\ IsPoolRead
  /\ resp.req = Call("getTransactionReceipt", PAY_HASH)
  /\ chain.pay = "mined"
  /\ Answers(1)
  /\ AnswerOf(1) = Null
  /\ Answers(NumProviders)
  /\ AnswerOf(NumProviders) # Null
  /\ resp.res.ok
  /\ resp.res.by = 1
  /\ resp.res.value = Null

\* the requests of one call issued to candidate i, in order
RequestsTo(i) == SelectSeq(resp.res.calls, LAMBDA a : a.provider = i)

\* C17: in one call the candidates are tried in list order, one at a time,
\* each at most once: the requests start at the first candidate, never go
\* back and never skip a candidate; a candidate gets the probe and, if the
\* probe answered, one read, and a failure moves on to the next candidate
\* with no retry.  Every call starts at the first candidate.
C17_InOrderOnceFromFirst ==
  IsPoolRead =>
    LET calls == resp.res.calls
    IN /\ Len(calls) > 0
       /\ calls[1].provider = 1
       /\ \A k \in 1..(Len(calls) - 1) :
            calls[k + 1].provider \in {calls[k].provider, calls[k].provider + 1}
       /\ \A i \in 1..NumProviders :
            \/ RequestsTo(i) = <<>>
            \/ RequestsTo(i) = <<Asked(i, "getBlockNumber")>>
                 /\ Probe(pool[i], chain, i).threw
            \/ RequestsTo(i) = <<Asked(i, "getBlockNumber"), Asked(i, resp.req.method)>>
                 /\ ~Probe(pool[i], chain, i).threw
       /\ \A i \in 1..(NumProviders - 1) :
            (RequestsTo(i) # <<>> /\ ~Answers(i)) => RequestsTo(i + 1) # <<>>

\* the first candidate fails the read, the call moves on and the last answers
C17_Witness ==
  /\ IsPoolRead
  /\ resp.req.method = "getNetwork"
  /\ pool[1] = "opErr"
  /\ Answers(NumProviders)
  /\ \A j \in 1..(NumProviders - 1) : ~Answers(j)
  /\ resp.res.ok
  /\ resp.res.by = NumProviders
  /\ Len(resp.res.calls) > 3

\* the error candidate i fails with
ErrorOf(i) ==
  IF Probe(pool[i], chain, i).threw THEN Probe(pool[i], chain, i).err
  ELSE Read(pool[i], chain, i, resp.req).err

\* C18: when every candidate fails (probe or read), the call fails with the
\* error observed on the last candidate tried.
C18_LastErrorThrown ==
  (IsPoolRead /\ \A i \in 1..NumProviders : ~Answers(i))
    => /\ ~resp.res.ok
       /\ resp.res.err = ErrorOf(NumProviders)

\* the first candidate fails the read, the last fails the probe
C18_Witness ==
  /\ IsPoolRead
  /\ resp.req.method = "getTransaction"
  /\ pool[1] = "opErr"
  /\ pool[NumProviders] = "down"
  /\ \A i \in 1..NumProviders : ~Answers(i)
  /\ ~resp.res.ok
  /\ resp.res.err = [at |-> NumProviders, phase |-> "probe"]

\* the receipt obtained is successful and the height the pool reports puts
\* it at a confirmation depth below the minimum of 1
BelowDepth(h) ==
  /\ GotSuccessfulReceipt(h)
  /\ HeightSeen.ok
  /\ HeightSeen.value - ReceiptSeen(h).value.blockNumber + 1 < 1

\* C19: when verifyPayment obtains a successful receipt whose confirmation
\* depth is below the configured minimum it returns PENDING, not CONFIRMED,
\* even if the qualifying sum reaches the price, in every verify-payment
\* implementation.
C19_DepthEnforcedEverywhere ==
  (IsVerify /\ HashPattern(VerifyHash) /\ OnAcceptedNetwork /\ BelowDepth(VerifyHash))
    => /\ ~resp.res.threw
       /\ resp.res.status = "PENDING"

\* the one log query of the fallback: the block of the transaction found,
\* the stablecoin contract, the Transfer signature, any sender, the payment
\* address as recipient
FallbackQuery(h) ==
  Call("getLogs",
       [fromBlock |-> TxSeen(h).value.blockNumber,
        toBlock |-> TxSeen(h).value.blockNumber,
        address |-> <<"usdc", "checksum">>,
        topics |-> <<"Transfer", Absent, <<"payment", "checksum">>>>])

LogsSeen(h) == withAnyProvider(pool, chain, FallbackQuery(h))

LogRequests(calls) == SelectSeq(calls, LAMBDA a : a.method = "getLogs")

\* no receipt obtained, the transaction found with a block number
FoundWithoutReceipt(h) ==
  /\ NoReceiptObtained(h)
  /\ TxSeen(h).ok
  /\ TxSeen(h).value # Null
  /\ TxSeen(h).value.blockNumber # 0

\* C20: when verifyPayment obtains no receipt but finds the transaction
\* with a block number, it issues one log query for that block, the
\* stablecoin contract, the Transfer signature and the payment address as
\* recipient, sums the transfers returned by the rule of the receipt path,
\* and returns CONFIRMED if the sum reaches the price, PENDING otherwise.
C20_LogsFallback ==
  (IsVerify /\ HashPattern(VerifyHash) /\ OnAcceptedNetwork
     /\ FoundWithoutReceipt(VerifyHash) /\ LogsSeen(VerifyHash).ok)
    => LET sum == QualifyingSum(LogsSeen(VerifyHash).value)
       IN /\ ~resp.res.threw
          /\ LogRequests(resp.res.calls) = LogRequests(LogsSeen(VerifyHash).calls)
          /\ resp.res.status = IF sum >= 3000000 THEN "CONFIRMED" ELSE "PENDING"
          /\ resp.res.paidUSDC = toUSDC(sum)

\* the payment's receipt is not served, its block holds 2.999999 of
\* qualifying transfers, the block before holds more
C20_Witness ==
  /\ IsVerify
  /\ VerifyHash = PAY_HASH
  /\ OnAcceptedNetwork
  /\ FoundWithoutReceipt(PAY_HASH)
  /\ LogsSeen(PAY_HASH).ok
  /\ QualifyingSum(LogsSeen(PAY_HASH).value) = 2999999
  /\ QualifyingSum(BlockLogs(chain, 1)) > 0
  /\ Len(LogRequests(resp.res.calls)) = 1
  /\ resp.res.status = "PENDING"
  /\ resp.res.message = "Transaction found, waiting for payment."

\* C21: the paid amount computed from a list of logs is the sum of the
\* amounts of the logs emitted by the stablecoin contract and decodable as
\* a Transfer to the payment address (letter case ignored); other
\* emitters, other recipients and undecodable logs add nothing, and the
\* sender does not matter.  Seen through the amount verify-payment attaches
\* and the threshold explain's own verification applies.
C21_PaidAmountRule ==
  /\ (IsVerify /\ VerifyHash = PAY_HASH /\ OnAcceptedNetwork
        /\ GotSuccessfulReceipt(PAY_HASH) /\ DepthReached(PAY_HASH))
       => resp.res.paidUSDC = toUSDC(QualifyingSum(ReceiptSeen(PAY_HASH).value.logs))
  /\ (IsExplain /\ resp.impl = "part_000" /\ HashPattern(ReqTx)
        /\ ReqPayTx = PAY_HASH /\ GotSuccessfulReceipt(PAY_HASH))
       => (resp.res.accessUnlocked
             <=> QualifyingSum(ReceiptSeen(PAY_HASH).value.logs) >= 3000000)

\* 2.999999 from the payer and 0.000001 from another sender
C21_Witness ==
  /\ IsVerify
  /\ VerifyHash = PAY_HASH
  /\ GotSuccessfulReceipt(PAY_HASH)
  /\ \E k \in 1..Len(chain.payLogs) : chain.payLogs[k] = TransferFromOther
  /\ \E k \in 1..Len(chain.payLogs) : chain.payLogs[k] = Xfer(2999999)
  /\ resp.res.status = "CONFIRMED"
  /\ resp.res.paidUSDC = [whole |-> 3, micro |-> 0]

\* the target's record is obtained, the receipt read answers nothing
ReceiptMissing ==
  /\ TxSeen(ReqTx).ok
  /\ TxSeen(ReqTx).value # Null
  /\ ReceiptSeen(ReqTx).ok
  /\ ReceiptSeen(ReqTx).value = Null

\* C22: explain tolerates a missing receipt: with the target's record
\* obtained and no receipt, it still returns the classification of the
\* transaction (summary, from/to) with no fee and zero log-derived counts,
\* not an error or a could-not-analyze result.
C22_MissingReceiptTolerated ==
  (IsExplain /\ HashPattern(ReqTx) /\ ReceiptMissing)
    => /\ resp.res.explanation.kind = "lines"
       /\ resp.res.summary =
            IF TxSeen(ReqTx).value.value > 0 /\ TxSeen(ReqTx).value.data = "0x"
            THEN "ETH transfer" ELSE "Contract interaction"
       /\ resp.res.fee = [kind |-> "none", wei |-> 0]
       /\ resp.res.explanation.touched = 0
       /\ resp.res.explanation.tokenTransfers = 0
       /\ resp.res.explanation.approvals = 0

\* the logs the transaction with hash h emitted itself, as the chain has them
OwnLogs(h) ==
  IF h = PAY_HASH /\ chain.pay = "mined" /\ chain.payStatus = 1 THEN chain.payLogs
  ELSE IF h = TGT_HASH /\ chain.tgt = "mined" THEN chain.tgtBody.logs
  ELSE <<>>

\* C23: whenever verifyPayment returns CONFIRMED, the transaction with that
\* hash itself emitted qualifying transfers summing to at least the price,
\* and the paid amount attached is the sum of that transaction's own
\* qualifying transfers; transfers of other transactions are not counted.
C23_ConfirmedByOwnTransfers ==
  (IsVerify /\ HashPattern(VerifyHash) /\ ~resp.res.threw
     /\ resp.res.status = "CONFIRMED")
    => /\ QualifyingSum(OwnLogs(VerifyHash)) >= 3000000
       /\ resp.res.paidUSDC = toUSDC(QualifyingSum(OwnLogs(VerifyHash)))

\* what the handler of flight f returns when it runs alone, start to end,
\* against the providers as they are
Alone(f) ==
  IF f.kind = "verify"
  THEN IF f.impl = "route" THEN GET_verify(pool, chain, f.req)
       ELSE GET_verify_p0(pool, chain, f.req)
  ELSE IF f.impl = "route" THEN GET_explain(pool, chain, f.req)
       ELSE GET_explain_p0(pool, chain, f.req)

\* C24: requests share no mutable state: under any interleaving of the
\* awaits of concurrently handled explain and verify-payment requests, each
\* request returns what it returns when run alone against the same
\* provider responses.
C24_RequestsIndependent ==
  \A r \in DOMAIN flights :
    flights[r].pc = "done" => flights[r].res = Alone(flights[r])

\* an explain with a confirmed payment finished while an explain without
\* payment reference is between two awaits
C24_Witness ==
  \E r \in DOMAIN flights, o \in DOMAIN flights :
    /\ r # o
    /\ flights[r].kind = "explain"
    /\ flights[r].impl = "part_000"
    /\ flights[r].payTx = PAY_HASH
    /\ flights[r].pc = "done"
    /\ flights[r].res.accessUnlocked
    /\ flights[o].kind = "explain"
    /\ flights[o].impl = "part_000"
    /\ flights[o].payTx = <<>>
    /\ flights[o].pc = "getTransactionReceipt"

\* some explain fetch of the page has no response yet
ExplainPending(pg) == \E n \in 1..pg.issued : pg.fetches[n].shown = Null

\* C25: when the last of several explain fetches in flight completes, the
\* result and the paid state the page shows are those of the most recently
\* issued fetch, whatever order the responses arrived in.
C25_LatestRequestShown ==
  [][ (ExplainPending(page) /\ ~ExplainPending(page'))
        => /\ page'.result = page'.fetches[page'.issued].shown
           /\ page'.paid = page'.fetches[page'.issued].shown.accessUnlocked ]_vars

====
